---- MODULE Spec2Model ----
(***************************************************************************)
(* Maximal chains of set partitions and the bidirectional push-down path    *)
(* search of chain_paths.py, with the brute-force distance of               *)
(* max_min_dist.py as the reference for path lengths.                       *)
(*                                                                          *)
(* Python indices are kept: entry d of a chain is chain[d+1] here, depths   *)
(* are 0-based.  Chain objects are mutable Python lists, so they live in a  *)
(* heap (a sequence of chains, an object's identity is its index); Split    *)
(* and TrivialPartition objects are never assigned after construction and   *)
(* are values, a Split holding its parent object.                           *)
(***************************************************************************)
EXTENDS Integers, Sequences, FiniteSets, TLC

\* Largest chain size n the inputs are drawn from.
MaxN == 4
\* Largest number of pushed_down calls in a run of SpecPush.
MaxPushes == 3

VARIABLES
  n,       \* len(self.chain1): the size of the two chains
  heap,    \* the Chain objects allocated so far; a chain is a sequence of partitions
  path1,   \* self.path1: references (heap indices) to chains
  path2,   \* self.path2
  picked,  \* self.picked
  d,       \* find(): the loop variable, the target depth
  cur,     \* find(): the pair (i, j) of the last iteration, <<>> before the first
  pc,      \* position in find(): "loop", "assert", "done", "failed"; in the other
           \* specifications the operation about to run or the one that has returned
  result,  \* the sequence find() returns (references), <<>> before it returns
  calls,   \* SpecPush: the arguments <<d, i, j>> of the pushed_down calls made, in order
  made,    \* SpecSplit: the object the last Split construction returned
  str,     \* SpecParse: the string handed to Chain.from_string, a sequence of tokens
  rev      \* SpecSym: what ChainPath(chain2, chain1).find() returned

\* The variables of the specifications of Split construction, parsing and the
\* reversed search; the other specifications leave them alone.
others == <<made, str, rev>>

\* No Split constructed, no string, no reversed search yet.
NoOthers ==
  /\ made = [kind |-> "none"]
  /\ str = <<>>
  /\ rev = <<>>

vars == <<n, heap, path1, path2, picked, d, cur, pc, result, calls, made, str, rev>>

----------------------------------------------------------------------------
\* Helpers for Python lists and sets.

Range(s) == {s[k] : k \in DOMAIN s}

Last(s) == s[Len(s)]

Min(S) == CHOOSE x \in S : \A y \in S : x <= y

\* list.index(x): the first position holding x (raises ValueError when absent).
Index(s, x) == CHOOSE k \in DOMAIN s : s[k] = x /\ \A m \in 1..(k-1) : s[m] # x

\* reversed(s)
Reverse(s) == [k \in 1..Len(s) |-> s[Len(s) + 1 - k]]

\* itertools.combinations(range(1, n+1), 2)
Pairs(m) == {p \in (1..m) \X (1..m) : p[1] < p[2]}

----------------------------------------------------------------------------
\* partition.py and class Split

TrivialPartition(m) == [kind |-> "trivial", n |-> m]

Split(parent, before, left, right) ==
  [kind |-> "split", parent |-> parent, before |-> before, left |-> left, right |-> right]

from_side(parent, before, left) == Split(parent, before, left, before \ left)

\* Split.parts leaving the divided part in place: right is appended, before is
\* not replaced by left.
RECURSIVE parts_keep_before(_)
parts_keep_before(p) ==
  IF p.kind = "trivial" THEN <<1..p.n>>
  ELSE Append(parts_keep_before(p.parent), p.right)

\* Split.parts / TrivialPartition.parts
RECURSIVE parts(_)
parts(p) ==
  IF p.kind = "trivial" THEN <<1..p.n>>
  ELSE LET pp == parts(p.parent)
       IN Append([pp EXCEPT ![Index(pp, p.before)] = p.left], p.right)

\* Partition.__eq__ / __ne__
eq(p, q) == Range(parts(p)) = Range(parts(q))

\* splits, seeing the pair only when i is on the left.
splits_one_way(p, i, j) ==
  IF p.kind = "trivial" THEN FALSE
  ELSE i \in p.left /\ j \in p.right

\* Split.splits, TrivialPartition.splits
splits(p, i, j) ==
  IF p.kind = "trivial" THEN FALSE
  ELSE (i \in p.left /\ j \in p.right) \/ (j \in p.left /\ i \in p.right)

----------------------------------------------------------------------------
\* class Chain

\* list.__eq__ on two chains: same length and equal partitions entry by entry.
chain_eq(c1, c2) ==
  /\ Len(c1) = Len(c2)
  /\ \A k \in 1..Len(c1) : eq(c1[k], c2[k])

\* next(d for d, split in enumerate(self) if split.splits(i, j)); -1 stands for
\* the StopIteration raised when no entry splits i and j.
split_depth(chain, i, j) ==
  LET ds == {k \in 0..(Len(chain) - 1) : splits(chain[k+1], i, j)}
  IN IF ds = {} THEN -1 ELSE Min(ds)

\* __swapped, taking in the dependent case the side of split1 that split2 divides.
swapped_wrong_side(split1, split2, i, j) ==
  IF split2.before \in {split1.left, split1.right}
  THEN LET uninvolved == IF i \notin split2.left /\ j \notin split2.left
                         THEN split2.left ELSE split2.right
           ret1 == from_side(split1.parent, split1.before, uninvolved)
           unsplit_side == IF split1.left = split2.before
                           THEN split1.left ELSE split1.right
           ret2 == from_side(ret1, ret1.right, unsplit_side)
       IN <<ret1, ret2>>
  ELSE LET ret1 == Split(split1.parent, split2.before, split2.left, split2.right)
           ret2 == Split(ret1, split1.before, split1.left, split1.right)
       IN <<ret1, ret2>>

\* __swapped, splitting off in the dependent case the side of split2 that holds i or j.
swapped_involved(split1, split2, i, j) ==
  IF split2.before \in {split1.left, split1.right}
  THEN LET uninvolved == IF i \notin split2.left /\ j \notin split2.left
                         THEN split2.right ELSE split2.left
           ret1 == from_side(split1.parent, split1.before, uninvolved)
           unsplit_side == IF split1.left # split2.before
                           THEN split1.left ELSE split1.right
           ret2 == from_side(ret1, ret1.right, unsplit_side)
       IN <<ret1, ret2>>
  ELSE LET ret1 == Split(split1.parent, split2.before, split2.left, split2.right)
           ret2 == Split(ret1, split1.before, split1.left, split1.right)
       IN <<ret1, ret2>>

\* __swapped, leaving in the independent case split1 as the parent of the second entry.
swapped_old_parent(split1, split2, i, j) ==
  IF split2.before \in {split1.left, split1.right}
  THEN LET uninvolved == IF i \notin split2.left /\ j \notin split2.left
                         THEN split2.left ELSE split2.right
           ret1 == from_side(split1.parent, split1.before, uninvolved)
           unsplit_side == IF split1.left # split2.before
                           THEN split1.left ELSE split1.right
           ret2 == from_side(ret1, ret1.right, unsplit_side)
       IN <<ret1, ret2>>
  ELSE LET ret1 == Split(split1.parent, split2.before, split2.left, split2.right)
           ret2 == Split(split1, split1.before, split1.left, split1.right)
       IN <<ret1, ret2>>

\* Chain.__swapped
swapped(split1, split2, i, j) ==
  IF split2.before \in {split1.left, split1.right}
  THEN LET uninvolved == IF i \notin split2.left /\ j \notin split2.left
                         THEN split2.left ELSE split2.right
           ret1 == from_side(split1.parent, split1.before, uninvolved)
           unsplit_side == IF split1.left # split2.before
                           THEN split1.left ELSE split1.right
           ret2 == from_side(ret1, ret1.right, unsplit_side)
       IN <<ret1, ret2>>
  ELSE LET ret1 == Split(split1.parent, split2.before, split2.left, split2.right)
           ret2 == Split(ret1, split1.before, split1.left, split1.right)
       IN <<ret1, ret2>>

\* pushed_down without the copy: ret = self, the slice is assigned in place.
pushed_down_in_place(h, self, dd, i, j) ==
  LET sw  == swapped(h[self][dd+1], h[self][dd+2], i, j)
      ret == [k \in 1..Len(h[self]) |->
                IF k = dd + 1 THEN sw[1] ELSE IF k = dd + 2 THEN sw[2] ELSE h[self][k]]
  IN [heap |-> [h EXCEPT ![self] = ret], ret |-> self]

\* self is a reference into the heap h.  ret = Chain(self[:]) allocates a new
\* list, ret[d:d+2] = ... then assigns into the new list only.  The value is the
\* heap after the call and the reference returned.
pushed_down(h, self, dd, i, j) ==
  LET sw  == swapped(h[self][dd+1], h[self][dd+2], i, j)
      ret == [k \in 1..Len(h[self]) |->
                IF k = dd + 1 THEN sw[1] ELSE IF k = dd + 2 THEN sw[2] ELSE h[self][k]]
  IN [heap |-> Append(h, ret), ret |-> Len(h) + 1]

\* min_dist_lb counting from n-1 instead of n-2.
min_dist_lb_shifted(m) == ((m - 1) * m) \div 2

min_dist_lb(m) == ((m - 2) * (m - 1)) \div 2

----------------------------------------------------------------------------
\* The chains find() is given: built as Chain.random builds them, every entry
\* d >= 1 a Split of the previous entry object, dividing one of its parts of
\* more than one element into two nonempty sides (left and right in either
\* order).

Extensions(c) ==
  LET parent == Last(c)
  IN UNION {{Append(c, Split(parent, before, left, before \ left)) :
               left \in (SUBSET before) \ {{}, before}} :
            before \in {b \in Range(parts(parent)) : Cardinality(b) > 1}}

RECURSIVE ChainsOfLen(_, _)
ChainsOfLen(m, k) ==
  IF k = 1 THEN {<<TrivialPartition(m)>>}
  ELSE UNION {Extensions(c) : c \in ChainsOfLen(m, k - 1)}

WellFormedChains(m) == ChainsOfLen(m, m)

----------------------------------------------------------------------------
\* SpecPush: Chain.pushed_down as a function, applied to a well-formed chain
\* and then to its own results, with every argument (d, i, j) the method
\* accepts: entry d is where i and j are split and d+1 is still an entry.
\* path1 records the chains in the order they were made.

ValidPush(chain) ==
  {c \in (1..(Len(chain) - 2)) \X (1..Len(chain)) \X (1..Len(chain)) :
     c[2] < c[3] /\ split_depth(chain, c[2], c[3]) = c[1]}

InitPush ==
  /\ n \in 2..MaxN
  /\ \E c \in WellFormedChains(n) : heap = <<c>>
  /\ path1 = <<1>>
  /\ path2 = <<>>
  /\ picked = {}
  /\ d = 0
  /\ cur = <<>>
  /\ pc = "push"
  /\ result = <<>>
  /\ calls = <<>>
  /\ NoOthers

PushedDown ==
  /\ pc = "push"
  /\ Len(path1) <= MaxPushes
  /\ \E c \in ValidPush(heap[Last(path1)]) :
       LET r == pushed_down(heap, Last(path1), c[1], c[2], c[3])
       IN /\ heap' = r.heap
          /\ path1' = Append(path1, r.ret)
          /\ calls' = Append(calls, c)
  /\ UNCHANGED <<n, path2, picked, d, cur, pc, result, others>>

NextPush == PushedDown

SpecPush == InitPush /\ [][NextPush]_vars

----------------------------------------------------------------------------
\* SpecSplit: the construction of a Split, by Split(parent, before, left,
\* right) or by Split.from_side(parent, before, left), with any sets of
\* elements for before, left and right.  Neither constructor tests its
\* arguments: both return the object.

InitSplit ==
  /\ n \in 2..MaxN
  /\ heap = <<>>
  /\ path1 = <<>>
  /\ path2 = <<>>
  /\ picked = {}
  /\ d = 0
  /\ cur = <<>>
  /\ pc = "construct"
  /\ result = <<>>
  /\ calls = <<>>
  /\ NoOthers

NewSplit ==
  /\ pc = "construct"
  /\ \E before, left, right \in SUBSET (1..n) :
       made' = Split(TrivialPartition(n), before, left, right)
  /\ pc' = "constructed"
  /\ UNCHANGED <<n, heap, path1, path2, picked, d, cur, result, calls, str, rev>>

NewSplitFromSide ==
  /\ pc = "construct"
  /\ \E before, left \in SUBSET (1..n) :
       made' = from_side(TrivialPartition(n), before, left)
  /\ pc' = "constructed from side"
  /\ UNCHANGED <<n, heap, path1, path2, picked, d, cur, result, calls, str, rev>>

NextSplit == NewSplit \/ NewSplitFromSide

SpecSplit == InitSplit /\ [][NextSplit]_vars

----------------------------------------------------------------------------
\* Strings are sequences of characters.  Partition.__to_str, __repr__,
\* Chain.__repr__ and Chain.from_string.

DigitChars == <<"0", "1", "2", "3", "4", "5", "6", "7", "8", "9">>

\* str(k) for an integer k >= 0
RECURSIVE str_of_int(_)
str_of_int(k) ==
  IF k < 10 THEN <<DigitChars[k + 1]>>
  ELSE str_of_int(k \div 10) \o <<DigitChars[(k % 10) + 1]>>

\* int(s) for a string of digits; -1 stands for the ValueError on anything else.
RECURSIVE int_of_str(_)
int_of_str(s) ==
  IF Len(s) = 0 \/ \E k \in 1..Len(s) : s[k] \notin Range(DigitChars) THEN -1
  ELSE IF Len(s) = 1 THEN Index(DigitChars, s[1]) - 1
  ELSE 10 * int_of_str(SubSeq(s, 1, Len(s) - 1)) + Index(DigitChars, s[Len(s)]) - 1

\* sep.join(strs)
RECURSIVE join(_, _)
join(sep, strs) ==
  IF Len(strs) = 0 THEN <<>>
  ELSE IF Len(strs) = 1 THEN strs[1]
  ELSE strs[1] \o sep \o join(sep, Tail(strs))

\* s.split(sep)
RECURSIVE str_split(_, _)
str_split(s, sep) ==
  LET at == {k \in 1..(Len(s) - Len(sep) + 1) : SubSeq(s, k, k + Len(sep) - 1) = sep}
  IN IF at = {} THEN <<s>>
     ELSE <<SubSeq(s, 1, Min(at) - 1)>>
            \o str_split(SubSeq(s, Min(at) + Len(sep), Len(s)), sep)

\* list(part): the elements of a frozenset of small integers, which come out in
\* ascending order ("already sorted by the underlying set").
RECURSIVE list_of(_)
list_of(part) ==
  IF part = {} THEN <<>>
  ELSE <<Min(part)>> \o list_of(part \ {Min(part)})

\* Python's order on lists of integers.
ListLeq(a, b) ==
  LET m    == IF Len(a) < Len(b) THEN Len(a) ELSE Len(b)
      diff == {k \in 1..m : a[k] # b[k]}
  IN IF diff = {} THEN Len(a) <= Len(b) ELSE a[Min(diff)] < b[Min(diff)]

\* sorted(lists)
RECURSIVE sorted(_)
sorted(lists) ==
  IF Len(lists) = 0 THEN <<>>
  ELSE LET k == Min({x \in 1..Len(lists) : \A y \in 1..Len(lists) : ListLeq(lists[x], lists[y])})
       IN <<lists[k]>> \o sorted([x \in 1..(Len(lists) - 1) |->
                                    IF x < k THEN lists[x] ELSE lists[x + 1]])

\* len(partition): Split.__len__ asks the parent, TrivialPartition.__len__ is n.
RECURSIVE len(_)
len(p) == IF p.kind = "trivial" THEN p.n ELSE len(p.parent)

\* Partition.__to_str(force_separators)
to_str(p, force_separators) ==
  LET ps        == parts(p)
      sparts    == sorted([k \in 1..Len(ps) |-> list_of(ps[k])])
      separator == IF force_separators \/ len(p) >= 10 THEN <<".">> ELSE <<>>
  IN join(<<"|">>, [k \in 1..Len(sparts) |->
                      join(separator, [x \in 1..Len(sparts[k]) |-> str_of_int(sparts[k][x])])])

\* Partition.__repr__
repr(p) == to_str(p, TRUE)

\* Chain.__repr__
chain_repr(chain) ==
  join(<<" ", "-", ">", " ">>, [k \in 1..Len(chain) |-> repr(chain[k])])

\* The first two lines of from_string: the partitions of the string as sets of
\* sets of integers.
raw_of(s) ==
  LET ps == str_split(s, <<" ", "-", ">", " ">>)
  IN [k \in 1..Len(ps) |->
        {{int_of_str(num) : num \in Range(str_split(part, <<".">>))} :
           part \in Range(str_split(ps[k], <<"|">>))}]

\* The loop of from_string with the operands of the two set differences exchanged.
RECURSIVE build_swapped_diff(_, _, _, _)
build_swapped_diff(raw_partitions, m, flips, partitions) ==
  LET idx == Len(partitions)
  IN IF idx >= m THEN partitions
     ELSE IF idx + 1 > Len(raw_partitions) THEN <<>>
     ELSE LET gone == raw_partitions[idx + 1] \ raw_partitions[idx]
              new  == raw_partitions[idx] \ raw_partitions[idx + 1]
          IN IF gone = {} \/ Cardinality(new) # 2 THEN <<>>
             ELSE LET before == CHOOSE b \in gone : TRUE
                      one    == CHOOSE x \in new : Min(x) = Min(UNION new)
                      other  == CHOOSE x \in new : x # one
                      left   == IF idx \in flips THEN other ELSE one
                      right  == IF idx \in flips THEN one ELSE other
                  IN build_swapped_diff(raw_partitions, m, flips,
                          Append(partitions, Split(partitions[idx], before, left, right)))

\* from_string over build_swapped_diff.
from_string_swapped_diff(s, flips) ==
  LET raw_partitions == raw_of(s)
      bad == \E k \in 1..Len(raw_partitions) : \E part \in raw_partitions[k] : -1 \in part
      m   == Cardinality(CHOOSE part \in raw_partitions[1] : TRUE)
      c   == build_swapped_diff(raw_partitions, m, flips, <<TrivialPartition(m)>>)
  IN IF bad \/ c = <<>> THEN [outcome |-> "error", chain |-> <<>>]
     ELSE IF chain_repr(c) # s THEN [outcome |-> "assertion failed", chain |-> <<>>]
     ELSE [outcome |-> "returned", chain |-> c]

\* The loop of from_string: partitions has idx entries, the next one divides
\* the part that is in raw_partitions[idx-1] only into the two parts that are
\* in raw_partitions[idx] only.  The two come out of a set, in either order:
\* flips holds the indices where the part with the smallest element comes
\* second.  <<>> stands for the IndexError or ValueError of a failed unpacking.
RECURSIVE build(_, _, _, _)
build(raw_partitions, m, flips, partitions) ==
  LET idx == Len(partitions)
  IN IF idx >= m THEN partitions
     ELSE IF idx + 1 > Len(raw_partitions) THEN <<>>
     ELSE LET gone == raw_partitions[idx] \ raw_partitions[idx + 1]
              new  == raw_partitions[idx + 1] \ raw_partitions[idx]
          IN IF gone = {} \/ Cardinality(new) # 2 THEN <<>>
             ELSE LET before == CHOOSE b \in gone : TRUE
                      one    == CHOOSE x \in new : Min(x) = Min(UNION new)
                      other  == CHOOSE x \in new : x # one
                      left   == IF idx \in flips THEN other ELSE one
                      right  == IF idx \in flips THEN one ELSE other
                  IN build(raw_partitions, m, flips,
                          Append(partitions, Split(partitions[idx], before, left, right)))

\* Chain.from_string(s): the chain returned, or the exception raised (a parse
\* error, or the AssertionError of the final repr(c) == s).
from_string(s, flips) ==
  LET raw_partitions == raw_of(s)
      bad == \E k \in 1..Len(raw_partitions) : \E part \in raw_partitions[k] : -1 \in part
      m   == Cardinality(CHOOSE part \in raw_partitions[1] : TRUE)
      c   == build(raw_partitions, m, flips, <<TrivialPartition(m)>>)
  IN IF bad \/ c = <<>> THEN [outcome |-> "error", chain |-> <<>>]
     ELSE IF chain_repr(c) # s THEN [outcome |-> "assertion failed", chain |-> <<>>]
     ELSE [outcome |-> "returned", chain |-> c]

\* SpecParse: a well-formed chain is rendered by repr() and the string is
\* given to Chain.from_string.

InitParse ==
  /\ n \in 2..MaxN
  /\ \E c \in WellFormedChains(n) : heap = <<c>>
  /\ path1 = <<>>
  /\ path2 = <<>>
  /\ picked = {}
  /\ d = 0
  /\ cur = <<>>
  /\ pc = "render"
  /\ result = <<>>
  /\ calls = <<>>
  /\ NoOthers

Render ==
  /\ pc = "render"
  /\ str' = chain_repr(heap[1])
  /\ pc' = "parse"
  /\ UNCHANGED <<n, heap, path1, path2, picked, d, cur, result, calls, made, rev>>

Parse ==
  /\ pc = "parse"
  /\ \E flips \in SUBSET (1..(n - 1)) :
       LET r == from_string(str, flips)
       IN /\ pc' = r.outcome
          /\ heap' = IF r.outcome = "returned" THEN Append(heap, r.chain) ELSE heap
  /\ UNCHANGED <<n, path1, path2, picked, d, cur, result, calls, others>>

NextParse == Render \/ Parse

SpecParse == InitParse /\ [][NextParse]_vars

----------------------------------------------------------------------------
\* class ChainPath

\* The candidates of __next_i_j with "<=" for "<" in the filter.
candidates_up_to(h, p1, p2, pk, dd, m) ==
  LET pairs == {<<p[1], p[2], split_depth(h[Last(p1)], p[1], p[2]),
                  split_depth(h[Last(p2)], p[1], p[2])>> : p \in Pairs(m) \ pk}
  IN {<<2 * m - t[3] - t[4], t[1], t[2]>> : t \in {u \in pairs : u[3] <= dd \/ u[4] <= dd}}

\* The candidates of __next_i_j with d2 left out of the value minimised.
candidates_without_d2(h, p1, p2, pk, dd, m) ==
  LET pairs == {<<p[1], p[2], split_depth(h[Last(p1)], p[1], p[2]),
                  split_depth(h[Last(p2)], p[1], p[2])>> : p \in Pairs(m) \ pk}
  IN {<<2 * m - t[3], t[1], t[2]>> : t \in {u \in pairs : u[3] < dd \/ u[4] < dd}}

\* The tuples (2n - d1 - d2, i, j) that __next_i_j takes the minimum of: of the
\* tuples (i, j, d1, d2) of the pairs not picked yet, those split above depth
\* dd in the last chain of either path.
candidates(h, p1, p2, pk, dd, m) ==
  LET pairs == {<<p[1], p[2], split_depth(h[Last(p1)], p[1], p[2]),
                  split_depth(h[Last(p2)], p[1], p[2])>> : p \in Pairs(m) \ pk}
  IN {<<2 * m - t[3] - t[4], t[1], t[2]>> : t \in {u \in pairs : u[3] < dd \/ u[4] < dd}}

\* Python's order on tuples of three integers.
TupleLeq(t, u) ==
  \/ t[1] < u[1]
  \/ t[1] = u[1] /\ t[2] < u[2]
  \/ t[1] = u[1] /\ t[2] = u[2] /\ t[3] <= u[3]

\* __next_i_j with max() for min().
next_i_j_max(h, p1, p2, pk, dd, m) ==
  LET cs == candidates(h, p1, p2, pk, dd, m)
  IN IF cs = {} THEN <<>>
     ELSE LET t == CHOOSE t \in cs : \A u \in cs : TupleLeq(u, t)
          IN <<t[2], t[3]>>

\* __next_i_j(d): <<i, j>>, or <<>> for the ValueError min() raises on no pair.
next_i_j(h, p1, p2, pk, dd, m) ==
  LET cs == candidates(h, p1, p2, pk, dd, m)
  IN IF cs = {} THEN <<>>
     ELSE LET t == CHOOSE t \in cs : \A u \in cs : TupleLeq(t, u)
          IN <<t[2], t[3]>>

\* The loop of __push_down: for depth in xrange(start_depth, end_depth).
RECURSIVE push_loop(_, _, _, _, _, _)
push_loop(h, path, depth, end_depth, i, j) ==
  IF depth >= end_depth THEN [heap |-> h, path |-> path]
  ELSE LET r == pushed_down(h, Last(path), depth, i, j)
       IN push_loop(r.heap, Append(path, r.ret), depth + 1, end_depth, i, j)

\* __push_down stopping one depth short of end_depth.
push_down_short(h, path, end_depth, i, j) ==
  push_loop(h, path, split_depth(h[Last(path)], i, j), end_depth - 1, i, j)

\* ChainPath.__push_down
push_down(h, path, end_depth, i, j) ==
  push_loop(h, path, split_depth(h[Last(path)], i, j), end_depth, i, j)

\* path() keeping path2's last element, the duplicate of path1's last.
path_with_duplicate(p1, p2) == p1 \o Reverse(p2)

\* path() without the part that comes from path2.
path_first_only(p1, p2) == p1

\* path(): path1 followed by path2 reversed without path2's last element.
path(p1, p2) == p1 \o Reverse(SubSeq(p2, 1, Len(p2) - 1))

\* ChainPath(chain1, chain2) for two chains of the same size, which may be two
\* objects or one and the same object, at the entry of find()'s loop.
Init ==
  /\ n \in 2..MaxN
  /\ \E chain1, chain2 \in WellFormedChains(n) :
       \/ heap = <<chain1, chain2>> /\ path1 = <<1>> /\ path2 = <<2>>
       \/ chain1 = chain2 /\ heap = <<chain1>> /\ path1 = <<1>> /\ path2 = <<1>>
  /\ picked = {}
  /\ d = n - 1
  /\ cur = <<>>
  /\ pc = "loop"
  /\ result = <<>>
  /\ calls = <<>>
  /\ NoOthers

\* One iteration of find()'s loop: pick the pair, push it down in both paths.
LoopBody ==
  /\ pc = "loop"
  /\ d >= 0
  /\ LET ij == next_i_j(heap, path1, path2, picked, d, n)
         r1 == push_down(heap, path1, d, ij[1], ij[2])
         r2 == push_down(r1.heap, path2, d, ij[1], ij[2])
     IN /\ ij # <<>>
        /\ cur' = ij
        /\ picked' = picked \cup {ij}
        /\ path1' = r1.path
        /\ path2' = r2.path
        /\ heap' = r2.heap
  /\ d' = d - 1
  /\ UNCHANGED <<n, pc, result, calls, others>>

\* The loop ends: the range is exhausted, or __next_i_j found no pair (break).
LoopExit ==
  /\ pc = "loop"
  /\ (d < 0 \/ next_i_j(heap, path1, path2, picked, d, n) = <<>>)
  /\ pc' = "assert"
  /\ UNCHANGED <<n, heap, path1, path2, picked, d, cur, result, calls, others>>

\* assert self.path1[-1] == self.path2[-1]; return self.path()
Return ==
  /\ pc = "assert"
  /\ IF chain_eq(heap[Last(path1)], heap[Last(path2)])
     THEN pc' = "done" /\ result' = path(path1, path2)
     ELSE pc' = "failed" /\ result' = result
  /\ UNCHANGED <<n, heap, path1, path2, picked, d, cur, calls, others>>

Next == LoopBody \/ LoopExit \/ Return

Spec == Init /\ [][Next]_vars

----------------------------------------------------------------------------
\* SpecSym: find() run to its end in one step, on ChainPath(chain1, chain2) and
\* then on a second instance ChainPath(chain2, chain1).

\* The loop of find() from target depth dd on: the state it leaves.
RECURSIVE find_loop(_, _, _, _, _, _)
find_loop(h, p1, p2, pk, dd, m) ==
  LET ij == IF dd < 0 THEN <<>> ELSE next_i_j(h, p1, p2, pk, dd, m)
  IN IF ij = <<>> THEN [heap |-> h, path1 |-> p1, path2 |-> p2, picked |-> pk, d |-> dd]
     ELSE LET r1 == push_down(h, p1, dd, ij[1], ij[2])
              r2 == push_down(r1.heap, p2, dd, ij[1], ij[2])
          IN find_loop(r2.heap, r1.path, r2.path, pk \cup {ij}, dd - 1, m)

\* ChainPath(chain1, chain2).find() for two references into the heap h: the
\* final state, and the path returned unless the assertion fails.
find(h, chain1, chain2) ==
  LET m == Len(h[chain1])
      r == find_loop(h, <<chain1>>, <<chain2>>, {}, m - 1, m)
  IN IF chain_eq(r.heap[Last(r.path1)], r.heap[Last(r.path2)])
     THEN [outcome |-> "returned", state |-> r, path |-> path(r.path1, r.path2)]
     ELSE [outcome |-> "assertion failed", state |-> r, path |-> <<>>]

InitSym ==
  /\ n \in 2..MaxN
  /\ \E chain1, chain2 \in WellFormedChains(n) : heap = <<chain1, chain2>>
  /\ path1 = <<1>>
  /\ path2 = <<2>>
  /\ picked = {}
  /\ d = n - 1
  /\ cur = <<>>
  /\ pc = "find"
  /\ result = <<>>
  /\ calls = <<>>
  /\ NoOthers

\* p = ChainPath(chain1, chain2); p.find(); then ChainPath(chain2, chain1).find().
\* The variables of find() keep the state of p.
FindBothWays ==
  /\ pc = "find"
  /\ \E p \in {find(heap, 1, 2)} : \E q \in {find(p.state.heap, 2, 1)} :
        /\ path1' = p.state.path1
        /\ path2' = p.state.path2
        /\ picked' = p.state.picked
        /\ d' = p.state.d
        /\ result' = p.path
        /\ heap' = q.state.heap
        /\ rev' = q.path
        /\ pc' = IF p.outcome = "returned" /\ q.outcome = "returned"
                 THEN "found both" ELSE "assertion failed"
  /\ UNCHANGED <<n, cur, calls, made, str>>

NextSym == FindBothWays

SpecSym == InitSym /\ [][NextSym]_vars

----------------------------------------------------------------------------
\* max_min_dist.py: the optimal lengths the found paths are compared with.
\* An ExplicitPartition is its set of parts, a chain a sequence of them.

\* ExplicitPartition.all_splits with __part_splits: every way of dividing one
\* part into two nonempty sides, each division taken once.
all_splits(P) ==
  UNION {{(P \ {part}) \cup {s, part \ s} : s \in (SUBSET part) \ {{}, part}} :
         part \in P}

\* __chains(partition), partition.depth = Len(c) for the last entry of c.
RECURSIVE explicit_chains(_, _)
explicit_chains(c, m) ==
  IF Len(c) = m THEN {c}
  ELSE UNION {explicit_chains(Append(c, P), m) : P \in all_splits(Last(c))}

\* all_chains = list(chains(ExplicitPartition.from_list(range(1, n+1))))
all_chains(m) == explicit_chains(<<{1..m}>>, m)

\* The adjacency matrix: 1 on the diagonal and where two chains differ at
\* fewer than two indices.
adjacent(x, y) ==
  x = y \/ Cardinality({k \in 1..Len(x) : x[k] # y[k]}) < 2

\* The chains y with a nonzero entry [x, y] in the k-th power of the matrix,
\* given those of the power before.
RECURSIVE length_from(_, _, _, _)
length_from(reached, y, k, m) ==
  IF y \in reached THEN k
  ELSE length_from({z \in all_chains(m) : \E w \in reached : adjacent(w, z)}, y, k + 1, m)

\* The length written for the row (x, y), x # y: the first power of the
\* matrix whose entry [x, y] is not zero.
optimal_length(x, y, m) ==
  length_from({z \in all_chains(m) : adjacent(x, z)}, y, 1, m)

----------------------------------------------------------------------------
\* Vocabulary of the properties.

\* The partition an entry stands for: its set of parts.
PartSet(p) == Range(parts(p))

\* Entry dd+1 of the chain divides a part that entry dd has just made.
Dependent(chain, dd) == chain[dd+2].before \in {chain[dd+1].left, chain[dd+1].right}

\* The k-th pushed_down call of SpecPush turned heap[path1[k]] into heap[path1[k+1]].
Before(k) == heap[path1[k]]
After(k)  == heap[path1[k+1]]

\* The well-formedness of a chain of size m.
WellFormed(chain, m) ==
  /\ Len(chain) = m
  /\ chain[1] = TrivialPartition(m)
  /\ \A k \in 2..m :
       /\ chain[k].kind = "split"
       /\ eq(chain[k].parent, chain[k-1])
       /\ chain[k].before \in PartSet(chain[k-1])
       /\ chain[k].left # {} /\ chain[k].right # {}
       /\ chain[k].left \cap chain[k].right = {}
       /\ chain[k].left \cup chain[k].right = chain[k].before

\* C3: pushed_down(d, i, j), called where entry d separates i and j and
\* 1 <= d <= n-2, returns a chain whose partition at every index other than d
\* equals the original's at that index, the partition at d+1 and the final one
\* in particular, whether entry d+1 depends on entry d or not.
C3_FrameOutsideD ==
  \A k \in 1..Len(calls) :
    /\ Len(After(k)) = Len(Before(k))
    /\ \A x \in 0..(n - 1) :
         x # calls[k][1] => PartSet(After(k)[x+1]) = PartSet(Before(k)[x+1])

\* Both cases have happened, and entry d did change.
C3_Witness ==
  /\ pc = "push"
  /\ \E k, m \in 1..Len(calls) :
       /\ Dependent(Before(k), calls[k][1])
       /\ ~Dependent(Before(m), calls[m][1])
       /\ PartSet(After(k)[calls[k][1] + 1]) # PartSet(Before(k)[calls[k][1] + 1])
       /\ PartSet(After(m)[calls[m][1] + 1]) # PartSet(Before(m)[calls[m][1] + 1])

\* C4: after pushed_down(d, i, j) with split_depth(i, j) = d <= n-2 the pair is
\* split at depth d+1: entry d of the result does not separate i and j, entry
\* d+1 does, in the dependent and in the independent case.
C4_PushedOneDeeper ==
  \A k \in 1..Len(calls) :
    LET dd == calls[k][1]
        i  == calls[k][2]
        j  == calls[k][3]
    IN /\ split_depth(After(k), i, j) = dd + 1
       /\ ~((i \in After(k)[dd+1].left /\ j \in After(k)[dd+1].right)
            \/ (j \in After(k)[dd+1].left /\ i \in After(k)[dd+1].right))
       /\ (i \in After(k)[dd+2].left /\ j \in After(k)[dd+2].right)
          \/ (j \in After(k)[dd+2].left /\ i \in After(k)[dd+2].right)

\* A dependent push and an independent push, each from the deepest depth allowed.
C4_Witness ==
  /\ pc = "push"
  /\ \E k, m \in 1..Len(calls) :
       /\ Dependent(Before(k), calls[k][1]) /\ calls[k][1] = n - 2
       /\ ~Dependent(Before(m), calls[m][1]) /\ calls[m][1] = n - 2
       /\ split_depth(Before(k), calls[k][2], calls[k][3]) = calls[k][1]
       /\ split_depth(Before(m), calls[m][2], calls[m][3]) = calls[m][1]

\* C5: every chain reached from a well-formed chain by valid pushed_down calls
\* is well-formed: entry 0 is the trivial partition and every entry d >= 1 is a
\* Split whose parent equals entry d-1 structurally, whose before is a part of
\* entry d-1 and whose left and right are nonempty, disjoint and make up before.
C5_WellFormedPreserved ==
  pc = "push" => \A c \in 1..Len(heap) : WellFormed(heap[c], n)

\* A chain made by several pushes in which the parent of an entry is no longer
\* the entry object before it, only a partition equal to it.
C5_Witness ==
  /\ pc = "push"
  /\ Len(calls) >= 2
  /\ \E k \in 2..n : Last(heap)[k].parent # Last(heap)[k-1]
  /\ \E k \in 1..Len(calls) : Dependent(Before(k), calls[k][1])
  /\ \E k \in 1..Len(calls) : ~Dependent(Before(k), calls[k][1])

\* The pairs with one element in each side of entry dd.
Across(chain, dd) ==
  {p \in Pairs(Len(chain)) :
     \/ p[1] \in chain[dd+1].left /\ p[2] \in chain[dd+1].right
     \/ p[2] \in chain[dd+1].left /\ p[1] \in chain[dd+1].right}

\* C9: in every well-formed chain of size n >= 2, pushed-down ones included,
\* split_depth(i, j) is defined for every pair i < j and lies in 1..n-1, and the
\* pairs of split depth d are exactly the |left| * |right| pairs across entry
\* d's two sides, so the depths partition the pairs without gap or overlap.
C9_DepthsPartitionPairs ==
  pc = "push" =>
    \A c \in 1..Len(heap) :
      /\ \A p \in Pairs(n) : split_depth(heap[c], p[1], p[2]) \in 1..(n - 1)
      /\ \A dd \in 1..(n - 1) :
           /\ {p \in Pairs(n) : split_depth(heap[c], p[1], p[2]) = dd} = Across(heap[c], dd)
           /\ Cardinality({p \in Pairs(n) : split_depth(heap[c], p[1], p[2]) = dd})
                = Cardinality(heap[c][dd+1].left) * Cardinality(heap[c][dd+1].right)

\* A pushed-down chain of the largest size with an entry separating several pairs.
C9_Witness ==
  /\ pc = "push"
  /\ Len(calls) >= 1
  /\ n >= 4
  /\ \E dd \in 1..(n - 1) : Cardinality(Across(Last(heap), dd)) >= 4

----------------------------------------------------------------------------
\* Properties of find().

\* The partitions of a chain, index by index.
Key(chain) == [k \in 1..Len(chain) |-> PartSet(chain[k])]

\* The indices at which two chains have different partitions.
Diffs(c1, c2) == {k \in 1..Len(c1) : PartSet(c1[k]) # PartSet(c2[k])}

\* The two input chains (never reassigned: path1[0] and path2[0]).
Chain1 == heap[path1[1]]
Chain2 == heap[path2[1]]

\* The number of edges of the path returned.
Edges == Len(result) - 1

\* C1: for two well-formed chains of the same size the loop of find() ends with
\* path1's last chain structurally equal to path2's last chain, so the assertion
\* after the loop never fails, also when the loop stops early on no eligible pair.
C1_Converges ==
  /\ pc # "failed"
  /\ pc \in {"assert", "done"} =>
       /\ Len(heap[Last(path1)]) = Len(heap[Last(path2)])
       /\ Diffs(heap[Last(path1)], heap[Last(path2)]) = {}

\* The loop stopped early (the range was not exhausted) after both paths grew
\* from two different chains.
C1_Witness ==
  /\ pc = "assert"
  /\ d >= 0
  /\ Diffs(Chain1, Chain2) # {}
  /\ Len(path1) > 1 /\ Len(path2) > 1

\* C2: the sequence path() returns after find() starts with chain1, ends with a
\* chain structurally equal to chain2, and any two consecutive chains of it
\* have different partitions at exactly one index.
C2_PathConnects ==
  pc = "done" =>
    /\ Len(result) >= 1
    /\ result[1] = path1[1]
    /\ Diffs(heap[Last(result)], Chain2) = {}
    /\ \A k \in 1..(Len(result) - 1) :
         Cardinality(Diffs(heap[result[k]], heap[result[k+1]])) = 1

\* A returned path with chains from both sides of the meeting point.
C2_Witness ==
  /\ pc = "done"
  /\ Len(path1) > 2 /\ Len(path2) > 2
  /\ Len(result) = Len(path1) + Len(path2) - 1

\* C6: the number of edges of the found path is at least the optimal length,
\* the shortest-path distance between the two chains in the graph joining
\* chains that differ at fewer than two indices.
C6_AtLeastOptimal ==
  pc = "done" =>
    Edges >= (IF Key(Chain1) = Key(Chain2) THEN 0
              ELSE optimal_length(Key(Chain1), Key(Chain2), n))

\* A found path of the optimal length between two chains three edges apart:
\* nothing shorter than what find() returns exists there.
C6_Witness ==
  /\ pc = "done"
  /\ Key(Chain1) # Key(Chain2)
  /\ optimal_length(Key(Chain1), Key(Chain2), n) >= 3
  /\ Edges = optimal_length(Key(Chain1), Key(Chain2), n)

\* C7: ChainPath(C, C).find() yields the single-element path [C].
C7_SameChainSinglePath ==
  (pc = "done" /\ path1[1] = path2[1]) => result = <<path1[1]>>

\* C8 as stated: the edge count of the found path is at least min_dist_lb(n).
C8_AtLeastLowerBound ==
  pc = "done" => Edges >= min_dist_lb(n)

\* C8 amended: the edge count of the found path is at least n-2, which is
\* min_dist_lb(n) for n <= 3 only.
C8_AtLeastNMinus2 ==
  pc = "done" =>
    /\ Edges >= n - 2
    /\ n <= 3 => Edges >= min_dist_lb(n)

\* A found path of size 4 with fewer edges than min_dist_lb(4).
C8_Witness ==
  /\ pc = "done"
  /\ n >= 4
  /\ Edges = n - 2
  /\ Edges < min_dist_lb(n)

\* C10: pushed_down does not mutate the chain it is called on: every chain
\* already in path1 or path2, the two inputs included, keeps its place in the
\* path and its partition at every index through every step of find().
C10_NoMutation ==
  [][/\ \A k \in 1..Len(path1) :
          path1'[k] = path1[k] /\ Key(heap'[path1[k]]) = Key(heap[path1[k]])
     /\ \A k \in 1..Len(path2) :
          path2'[k] = path2[k] /\ Key(heap'[path2[k]]) = Key(heap[path2[k]])]_vars

\* Several push-downs were made from chains that are still in the paths.
C10_Witness ==
  /\ pc = "loop"
  /\ Len(path1) > 2 /\ Len(path2) > 2
  /\ Len(heap) = Len(path1) + Len(path2)

----------------------------------------------------------------------------
\* Properties of the steps of find().

\* The split depths of a pair in the last chains of path1 and path2.
Depth1(p) == split_depth(heap[Last(path1)], p[1], p[2])
Depth2(p) == split_depth(heap[Last(path2)], p[1], p[2])

\* The pairs find() may pick at target depth d: not picked yet, and split above
\* depth d in the last chain of path1 or of path2.
Eligible == {p \in Pairs(n) \ picked : Depth1(p) < d \/ Depth2(p) < d}

\* p comes before q: smaller 2n - d1 - d2, then smaller (i, j).
Precedes(p, q) ==
  LET sp == 2 * n - Depth1(p) - Depth2(p)
      sq == 2 * n - Depth1(q) - Depth2(q)
  IN \/ sp < sq
     \/ sp = sq /\ p[1] < q[1]
     \/ sp = sq /\ p[1] = q[1] /\ p[2] <= q[2]

\* A step of find() that is an iteration of its loop.
IsIteration == pc = "loop" /\ pc' = "loop" /\ d' # d

\* C13: at each target depth d find() picks, among the pairs i < j not yet
\* picked with d1 < d or d2 < d, the one with the smallest 2n - d1 - d2, ties
\* going to the smallest (i, j); the loop stops exactly when no such pair exists.
C13_PicksMinimalPair ==
  [][pc = "loop" =>
       IF Eligible = {}
       THEN pc' = "assert" /\ picked' = picked /\ path1' = path1 /\ path2' = path2
       ELSE /\ pc' = "loop"
            /\ cur' \in Eligible
            /\ \A q \in Eligible : Precedes(cur', q)
            /\ picked' = picked \cup {cur'}]_vars

\* After a first pick, a choice among several pairs where two pairs tie on
\* 2n - d1 - d2 and a smaller pair (i, j) has a larger value.
C13_Witness ==
  /\ pc = "loop"
  /\ cur # <<>>
  /\ \E p, q, r \in Eligible :
       /\ p # q
       /\ \A t \in Eligible : Precedes(p, t)
       /\ Depth1(q) + Depth2(q) = Depth1(p) + Depth2(p)
       /\ Depth1(r) + Depth2(r) < Depth1(p) + Depth2(p)
       /\ (r[1] < p[1] \/ (r[1] = p[1] /\ r[2] < p[2]))

\* C14: when find() processes the picked pair (i, j) at target depth d, a path
\* whose last chain has split_depth(i, j) = s gets exactly max(0, d - s) chains
\* appended, the k-th of them with split_depth(i, j) = s + k, so after the step
\* the pair's split depth is d in the last chain of both paths.
C14_PushesOnePerDepth ==
  [][IsIteration =>
       LET i  == cur'[1]
           j  == cur'[2]
           s1 == split_depth(heap[Last(path1)], i, j)
           s2 == split_depth(heap[Last(path2)], i, j)
           m1 == IF d - s1 > 0 THEN d - s1 ELSE 0
           m2 == IF d - s2 > 0 THEN d - s2 ELSE 0
       IN /\ Len(path1') = Len(path1) + m1
          /\ Len(path2') = Len(path2) + m2
          /\ SubSeq(path1', 1, Len(path1)) = path1
          /\ SubSeq(path2', 1, Len(path2)) = path2
          /\ \A k \in 1..m1 : split_depth(heap'[path1'[Len(path1) + k]], i, j) = s1 + k
          /\ \A k \in 1..m2 : split_depth(heap'[path2'[Len(path2) + k]], i, j) = s2 + k
          /\ split_depth(heap'[Last(path1')], i, j) = d
          /\ split_depth(heap'[Last(path2')], i, j) = d]_vars

\* After the first iteration: path1 got two chains, path2 none.
C14_Witness ==
  /\ pc = "loop"
  /\ Cardinality(picked) = 1
  /\ Len(path1) = 3
  /\ Len(path2) = 1
  /\ split_depth(heap[path1[1]], cur[1], cur[2]) = d - 1
  /\ split_depth(heap[path1[3]], cur[1], cur[2]) = d + 1

\* The first depth at which i and j lie in different parts of parts(entry).
parts_depth(chain, i, j) ==
  LET ds == {k \in 0..(Len(chain) - 1) :
               ~\E part \in PartSet(chain[k+1]) : i \in part /\ j \in part}
  IN IF ds = {} THEN -1 ELSE Min(ds)

\* C15: in every well-formed chain, pushed-down ones included, split_depth(i, j)
\* computed from the split events (the first entry whose left and right sides
\* separate i and j) is the smallest index at which i and j lie in different
\* parts of parts(entry), parts() being derived through the parents.
C15_SplitDepthIsPartsDepth ==
  pc = "push" =>
    \A c \in 1..Len(heap) : \A p \in Pairs(n) :
      /\ parts_depth(heap[c], p[1], p[2]) >= 1
      /\ split_depth(heap[c], p[1], p[2]) = parts_depth(heap[c], p[1], p[2])

\* A chain made by two pushes whose entries no longer descend from one another:
\* the parent of some entry is not the entry before it.
C15_Witness ==
  /\ pc = "push"
  /\ n >= 4
  /\ Len(calls) >= 2
  /\ \E k \in 2..n : Last(heap)[k].parent # Last(heap)[k-1]
  /\ \E p \in Pairs(n) : split_depth(Last(heap), p[1], p[2]) # split_depth(heap[1], p[1], p[2])

\* C16: the loop invariant of find().  Before the iteration for target depth d
\* the last chains of path1 and path2 have equal partitions at every index >= d,
\* and after it at every index >= d-1 (d is then the next target depth); hence
\* the pair picked never has a split depth greater than d in either path when
\* it is pushed.
C16_LoopInvariant ==
  pc = "loop" =>
    /\ \A x \in 0..(n - 1) :
         x >= d => PartSet(heap[Last(path1)][x+1]) = PartSet(heap[Last(path2)][x+1])
    /\ LET ij == next_i_j(heap, path1, path2, picked, d, n)
       IN ij # <<>> => Depth1(ij) <= d /\ Depth2(ij) <= d

\* Between two iterations: the inputs differed at an index where the last
\* chains now agree, and the last chains still differ above the target depth.
C16_Witness ==
  /\ pc = "loop"
  /\ cur # <<>>
  /\ \E x \in 0..(n - 1) :
       /\ x >= d
       /\ PartSet(Chain1[x+1]) # PartSet(Chain2[x+1])
  /\ \E x \in 0..(n - 1) :
       /\ x < d
       /\ PartSet(heap[Last(path1)][x+1]) # PartSet(heap[Last(path2)][x+1])

\* C17: for two well-formed chains of size n >= 2, equal or not, find() picks a
\* pair at every target depth n-1, ..., 2 and stops at d = 1: exactly n-2 pairs
\* are picked and target depth 0 is never processed.
C17_PicksAtEveryDepthAboveOne ==
  /\ pc = "loop" => d >= 1 /\ Cardinality(picked) = n - 1 - d
  /\ pc = "loop" /\ d >= 2 => next_i_j(heap, path1, path2, picked, d, n) # <<>>
  /\ pc = "loop" /\ d = 1 => next_i_j(heap, path1, path2, picked, d, n) = <<>>
  /\ pc \in {"assert", "done"} => d = 1 /\ Cardinality(picked) = n - 2

\* find() has returned for two equal chains of size 4 after picking two pairs.
C17_Witness ==
  /\ pc = "done"
  /\ n >= 4
  /\ Key(Chain1) = Key(Chain2)
  /\ Cardinality(picked) = n - 2
  /\ d = 1

\* C18: the iteration for target depth d appends at most d-1 chains to each
\* path, so the path find() returns has at most (n-1)(n-2) edges.
C18_AtMostQuadratic ==
  /\ [][IsIteration =>
          /\ Len(path1') - Len(path1) <= d - 1
          /\ Len(path2') - Len(path2) <= d - 1]_vars
  /\ [](pc = "done" => Edges <= (n - 1) * (n - 2))

\* A returned path with exactly (n-1)(n-2) edges, n >= 3.
C18_Witness ==
  /\ pc = "done"
  /\ n >= 3
  /\ Edges = (n - 1) * (n - 2)

----------------------------------------------------------------------------
\* Properties of Split construction.

\* C11: constructing a Split whose before is not the disjoint union of left and
\* right, or one of whose sides is empty, is rejected: no Split object results.
C11_InvalidSplitRejected ==
  pc \in {"constructed", "constructed from side"} =>
    /\ made.kind = "split"
    /\ made.left # {} /\ made.right # {}
    /\ made.left \cap made.right = {}
    /\ made.left \cup made.right = made.before

----------------------------------------------------------------------------
\* Properties of the string formats.

\* C12: the canonical round trip.  For a well-formed chain C, from_string
\* applied to the canonical rendering of C returns a chain, rebuilt by diffing
\* consecutive partitions, with the same partition as C at every index.
C12_CanonicalRoundTrip ==
  /\ pc \notin {"error", "assertion failed"}
  /\ pc = "returned" =>
       /\ Len(heap[2]) = Len(heap[1])
       /\ \A k \in 1..Len(heap[1]) : PartSet(heap[2][k]) = PartSet(heap[1][k])

\* The string "1.2.3.4 -> 1.2|3.4 -> 1|2|3.4 -> 1|2|3|4" was parsed into a chain
\* that is not the chain it was rendered from (sides in another order).
C12_Witness ==
  /\ pc = "returned"
  /\ heap[2] # heap[1]
  /\ str =
    <<"1", ".", "2", ".", "3", ".", "4", " ", "-", ">", " ", "1", ".", "2",
     "|", "3", ".", "4", " ", "-", ">", " ", "1", "|", "2", "|", "3", ".",
     "4", " ", "-", ">", " ", "1", "|", "2", "|", "3", "|", "4">>

----------------------------------------------------------------------------
\* Properties of the search as a whole.

\* C19: reversal symmetry.  The path ChainPath(B, A).find() returns is, chain by
\* chain under structural equality, the reverse of the path
\* ChainPath(A, B).find() returns.
C19_ReversalSymmetry ==
  pc = "found both" =>
    /\ Len(rev) = Len(result)
    /\ \A k \in 1..Len(result) :
         Key(heap[rev[k]]) = Key(heap[result[Len(result) + 1 - k]])

\* Both searches returned, for two chains of size 4 that differ, a path of five
\* chains or more that pushes in both path1 and path2.
C19_Witness ==
  /\ pc = "found both"
  /\ n >= 4
  /\ Key(Chain1) # Key(Chain2)
  /\ Len(result) >= 5
  /\ Len(path1) > 1 /\ Len(path2) > 1
  /\ Len(path1) # Len(path2)
  /\ rev # Reverse(result)

====
